---- MODULE Spec2Model ----
(***************************************************************************)
(* State-machine model of src/news.py: the three news adapters, the        *)
(* article-page summarizer, the sentiment classifier, the orchestration    *)
(* function fetch_and_analyze_news and the recount done by the UI code.    *)
(*                                                                         *)
(* Python values are modelled as follows.  A str that the code inspects    *)
(* character by character (a sentiment label, because of .capitalize()) is *)
(* a sequence of one-character strings.  Titles, summaries and links are   *)
(* opaque strings.  None is the string NoneValue.  A Python tuple          *)
(* (title, summary, link) is a TLA+ tuple.  Everything the program gets    *)
(* from outside (HTTP responses, model outputs) is an input chosen from a  *)
(* small set.                                                              *)
(***************************************************************************)
EXTENDS Integers, Sequences, FiniteSets, TLC

\* ------------------------------------------------------------------------
\* Bounds of the model
\* ------------------------------------------------------------------------
\* Total number of items the upstream providers hand out during one run.
MaxArticles == 3

\* ------------------------------------------------------------------------
\* Program constants
\* ------------------------------------------------------------------------
\* articles[:5] in every adapter
ArticleCap == 5
\* len(text_content) < 200
MinTextLen == 200
\* compound >= 0.05 and compound <= -0.05, the compound score in hundredths
PosCompound == 5
NegCompound == 0 - 5
\* (pos / total) > 0.4 is pos * RatioDen > RatioNum * total
RatioNum == 4
RatioDen == 10

NoneValue == "<None>"
NoSummary == "No summary available"
NoTitle == "No Title"
Absent == "<absent>"

Titles == {"t1", "t2"}
LinkOf == [t \in Titles |-> IF t = "t1" THEN "http://x/1" ELSE "http://x/2"]
Links == {LinkOf[t] : t \in Titles}
DerivedSummaries == {"s1"}

Min(a, b) == IF a < b THEN a ELSE b

\* Python truthiness of an optional str: None and "" are falsy.
Falsy(s) == s = NoneValue \/ s = ""

\* ------------------------------------------------------------------------
\* str.capitalize() on labels
\* ------------------------------------------------------------------------
LowerChars == <<"a","b","c","d","e","f","g","h","i","j","k","l","m",
                "n","o","p","q","r","s","t","u","v","w","x","y","z">>
UpperChars == <<"A","B","C","D","E","F","G","H","I","J","K","L","M",
                "N","O","P","Q","R","S","T","U","V","W","X","Y","Z">>

ToUpper(c) ==
    IF \E k \in 1..Len(LowerChars) : LowerChars[k] = c
    THEN UpperChars[CHOOSE k \in 1..Len(LowerChars) : LowerChars[k] = c]
    ELSE c

ToLower(c) ==
    IF \E k \in 1..Len(UpperChars) : UpperChars[k] = c
    THEN LowerChars[CHOOSE k \in 1..Len(UpperChars) : UpperChars[k] = c]
    ELSE c

Capitalize(s) ==
    [k \in 1..Len(s) |-> IF k = 1 THEN ToUpper(s[k]) ELSE ToLower(s[k])]

Positive == <<"P","o","s","i","t","i","v","e">>
Negative == <<"N","e","g","a","t","i","v","e">>
Neutral == <<"N","e","u","t","r","a","l">>
ErrorLabel == <<"E","r","r","o","r">>
Sentiments == {Positive, Negative, Neutral}

\* Labels the FinBERT pipeline may return.
FinbertLabels == { <<"p","o","s","i","t","i","v","e">>,
                   <<"n","e","g","a","t","i","v","e">>,
                   <<"L","A","B","E","L","_","0">> }

\* ------------------------------------------------------------------------
\* Inputs: what the outside world answers
\* ------------------------------------------------------------------------
\* All sequences over S of length at most n.
SeqUpTo(S, n) == UNION {[1..k -> S] : k \in 0..n}

\* JSON items of NewsData.io: the description may be missing or "".  The
\* first title comes with a description, the second without.
DescriptionOf == [t \in Titles |-> IF t = "t1" THEN {"d1"} ELSE {Absent, ""}]
NewsdataItems ==
    UNION {{[title |-> t, description |-> d, link |-> LinkOf[t]] :
               d \in DescriptionOf[t]} : t \in Titles}

\* <li class="clearfix"> of MoneyControl: the h2 may be missing or blank.
MoneycontrolItems ==
    {[h2 |-> t, href |-> LinkOf[t]] : t \in Titles} \cup
    {[h2 |-> Absent, href |-> LinkOf["t1"]]}

\* <div class="news-card"> of Bing: the <a> may be missing.
BingItems ==
    {[a |-> TRUE, text |-> t, href |-> LinkOf[t]] : t \in Titles} \cup
    {[a |-> FALSE, text |-> Absent, href |-> Absent]}

\* A response either raises (connection error, bad status, undecodable
\* body) or carries a list of items.
Responses(Items, n) ==
    {[raises |-> TRUE, items |-> <<>>]} \cup
    {[raises |-> FALSE, items |-> s] : s \in SeqUpTo(Items, n)}

\* What the classifier backends answer for a text.
ClassifierOutcomes(m) ==
    IF m = "VADER"
    THEN {[raises |-> TRUE, compound |-> 0, label |-> <<>>]} \cup
         {[raises |-> FALSE, compound |-> c, label |-> <<>>] :
             c \in {NegCompound, PosCompound - 1, PosCompound}}
    ELSE IF m = "FinBERT"
    THEN {[raises |-> TRUE, compound |-> 0, label |-> <<>>]} \cup
         {[raises |-> FALSE, compound |-> 0, label |-> l] : l \in FinbertLabels}
    ELSE {[raises |-> FALSE, compound |-> 0, label |-> <<>>]}

Methods == {"VADER", "FinBERT", "TextBlob"}

\* What happens while an article page is fetched and summarized.
WebOutcomes ==
    [load : {"ok", "raise"},
     get : {"ok", "raise"},
     text_len : {MinTextLen - 1, MinTextLen},
     summarizer : DerivedSummaries \cup {"raise", "empty"}]

\* ------------------------------------------------------------------------
\* Pure functions of the program
\* ------------------------------------------------------------------------
\* seq[:n]
Take(s, n) == SubSeq(s, 1, Min(Len(s), n))

\* dict.get(key, default) on a JSON item
GetOr(v, default) == IF v = Absent THEN default ELSE v

\* fetch_news_newsdata: one (title, desc, link) per item, first five items.
NewsdataTuple(art) ==
    << GetOr(art.title, NoTitle),
       IF Falsy(GetOr(art.description, NoneValue)) THEN NoSummary
       ELSE art.description,
       GetOr(art.link, "") >>

fetch_news_newsdata(resp) ==
    IF resp.raises THEN <<>>
    ELSE LET articles == Take(resp.items, ArticleCap)
         IN  [k \in 1..Len(articles) |-> NewsdataTuple(articles[k])]

\* scrape_moneycontrol_news: the first five <li>, those with a non-blank h2.
HasHeadline(art) == art.h2 # Absent /\ art.h2 # ""
MoneycontrolTuple(art) == << art.h2, NoneValue, GetOr(art.href, "") >>

scrape_moneycontrol_news(resp) ==
    IF resp.raises THEN <<>>
    ELSE LET articles == SelectSeq(Take(resp.items, ArticleCap), HasHeadline)
         IN  [k \in 1..Len(articles) |-> MoneycontrolTuple(articles[k])]

\* scrape_bing_news: the first five cards, those that hold an <a>.
HasAnchor(card) == card.a
BingTuple(card) == << card.text, NoneValue, GetOr(card.href, "") >>

scrape_bing_news(resp) ==
    IF resp.raises THEN <<>>
    ELSE LET articles == SelectSeq(Take(resp.items, ArticleCap), HasAnchor)
         IN  [k \in 1..Len(articles) |-> BingTuple(articles[k])]

\* parse_and_summarize_article: load_summarizer() is called before the try
\* block, so its exception leaves the function; everything after it is
\* inside try/except and falls back to the sentinel.  The text is cut to
\* max_chars before it is summarized; the cut changes the summary's wording,
\* which the model leaves to the input web.summarizer.
parse_and_summarize_article(url, web) ==
    IF web.load = "raise" THEN [raised |-> TRUE, value |-> NoneValue]
    ELSE IF web.get # "ok" THEN [raised |-> FALSE, value |-> NoSummary]
    ELSE IF web.text_len < MinTextLen THEN [raised |-> FALSE, value |-> NoSummary]
    ELSE IF web.summarizer = "raise" THEN [raised |-> FALSE, value |-> NoSummary]
    ELSE IF web.summarizer = "empty" THEN [raised |-> FALSE, value |-> NoSummary]
    ELSE [raised |-> FALSE, value |-> web.summarizer]

\* analyze_sentiment(text, method), given what the backend answers for text.
analyze_sentiment(text, m, out) ==
    IF m = "VADER"
    THEN IF out.raises THEN ErrorLabel
         ELSE IF out.compound >= PosCompound THEN Positive
         ELSE IF out.compound <= NegCompound THEN Negative
         ELSE Neutral
    ELSE IF m = "FinBERT"
    THEN IF out.raises THEN ErrorLabel
         ELSE Capitalize(out.label)
    ELSE Neutral

\* Variant of SentimentText: headline and summary are classified jointly.
SentimentTextJoint(headline, summ) == << headline, summ >>

\* The text handed to analyze_sentiment for an article: the headline.
SentimentText(headline, summ) == << headline >>

\* Variant of Fallback: the label is kept as the backend gave it.
FallbackMissing(label) == label

\* "Fallback if we got something weird"
Fallback(label) == IF label \in Sentiments THEN label ELSE Neutral

\* Variant of Tally: `if` instead of `elif`, so a Positive article also
\* reaches the final else.
TallyFallThrough(counts, sentiment) ==
    LET c1 == IF sentiment = Positive THEN counts[1] + 1 ELSE counts[1]
    IN  IF sentiment = Negative THEN << c1, counts[2] + 1, counts[3] >>
        ELSE << c1, counts[2], counts[3] + 1 >>

\* "Track counts": counts is <<pos, neg, neu>>.
Tally(counts, sentiment) ==
    IF sentiment = Positive THEN << counts[1] + 1, counts[2], counts[3] >>
    ELSE IF sentiment = Negative THEN << counts[1], counts[2] + 1, counts[3] >>
    ELSE << counts[1], counts[2], counts[3] + 1 >>

\* Variant of Verdict: the Negative ratio is tested before the Positive one.
VerdictNegativeFirst(p, n, u) ==
    LET total == p + n + u
    IN  IF total = 0 THEN Neutral
        ELSE IF n * RatioDen > RatioNum * total THEN Negative
        ELSE IF p * RatioDen > RatioNum * total THEN Positive
        ELSE Neutral

\* The sentiment stored for an article, cls being the backend's answers.
SentimentOf(headline, summ, m, cls) ==
    LET text == SentimentText(headline, summ)
    IN  Fallback(Capitalize(analyze_sentiment(text, m, cls[text[1]])))

\* The ratio rule at the end of fetch_and_analyze_news.
Verdict(p, n, u) ==
    LET total == p + n + u
    IN  IF total = 0 THEN Neutral
        ELSE IF p * RatioDen > RatioNum * total THEN Positive
        ELSE IF n * RatioDen > RatioNum * total THEN Negative
        ELSE Neutral

\* The adapters fetch_and_analyze_news calls, in call order.
CallPlan(agg, nd) ==
    IF agg THEN << "moneycontrol", "bing", "newsdata" >>
    ELSE IF nd THEN << "newsdata" >>
    ELSE << "moneycontrol", "bing" >>

\* s without the articles whose title an earlier article of s carries.
RECURSIVE DedupTitles(_)
DedupTitles(s) ==
    IF s = <<>> THEN <<>>
    ELSE LET front == DedupTitles(SubSeq(s, 1, Len(s) - 1))
             last == s[Len(s)]
         IN  IF \E k \in 1..Len(front) : front[k][1] = last[1] THEN front
             ELSE Append(front, last)

\* Variant of SelectSources: MoneyControl first, Bing only as a fallback.
SelectFirstSuccess(agg, nd, mc, bing, ndio) ==
    IF agg THEN ndio \o (mc \o bing)
    ELSE IF nd THEN ndio
    ELSE IF mc # <<>> THEN mc ELSE bing

\* Variant of SelectSources: duplicates by (title, source) are dropped.
SelectDeduplicated(agg, nd, mc, bing, ndio) ==
    IF agg THEN DedupTitles(ndio) \o (DedupTitles(mc) \o DedupTitles(bing))
    ELSE IF nd THEN ndio
    ELSE mc \o bing

\* Variant of SelectSources: the merge follows the order of the calls.
SelectInCallOrder(agg, nd, mc, bing, ndio) ==
    IF agg THEN (mc \o bing) \o ndio
    ELSE IF nd THEN ndio
    ELSE mc \o bing

\* news_sources as assembled from the adapters' return values.
SelectSources(agg, nd, mc, bing, ndio) ==
    IF agg THEN ndio \o (mc \o bing)
    ELSE IF nd THEN ndio
    ELSE mc \o bing

\* ------------------------------------------------------------------------
\* State
\* ------------------------------------------------------------------------
VARIABLES
    method,            \* argument method
    use_newsdata,      \* argument use_newsdata
    aggregate_sources, \* argument aggregate_sources
    classifier,        \* what the sentiment backend answers for a text, keyed
                       \* by the text's first fragment
    pc,                \* position in fetch_and_analyze_news / the UI code
    calls,             \* history: the adapter calls made, with their results
    news_sources,      \* local news_sources
    idx,               \* 1-based position of the for loop in news_sources
    summary,           \* local summary of the current iteration
    pos, neg, neu,     \* locals pos, neg, neu
    analyzed_news,     \* local analyzed_news
    overall,           \* returned verdict
    news_list,         \* returned article list, as the UI receives it
    sentiment_counts,  \* the UI's recount, <<Positive, Negative, Neutral>>
    sent_args,         \* history: texts handed to analyze_sentiment
    page_fetches       \* history: loop positions that called
                       \* parse_and_summarize_article

vars == << method, use_newsdata, aggregate_sources, classifier, pc, calls,
           news_sources, idx, summary, pos, neg, neu, analyzed_news, overall,
           news_list, sentiment_counts, sent_args, page_fetches >>

inputs == << method, use_newsdata, aggregate_sources, classifier >>

\* Result of the adapter named a, <<>> if it was not called.
ResultOf(a) ==
    IF \E k \in 1..Len(calls) : calls[k].adapter = a
    THEN calls[CHOOSE k \in 1..Len(calls) : calls[k].adapter = a].result
    ELSE <<>>

\* Items handed out so far; caps the next response.
Fetched == Len(ResultOf("moneycontrol")) + Len(ResultOf("bing"))
             + Len(ResultOf("newsdata"))

Plan == CallPlan(aggregate_sources, use_newsdata)
NextAdapter == IF Len(calls) < Len(Plan) THEN Plan[Len(calls) + 1] ELSE "none"

Init ==
    /\ method \in Methods
    /\ use_newsdata \in BOOLEAN
    /\ aggregate_sources \in BOOLEAN
    /\ classifier \in [Titles -> ClassifierOutcomes(method)]
    /\ pc = "fetch"
    /\ calls = <<>>
    /\ news_sources = <<>>
    /\ idx = 0
    /\ summary = NoneValue
    /\ pos = 0 /\ neg = 0 /\ neu = 0
    /\ analyzed_news = <<>>
    /\ overall = NoneValue
    /\ news_list = <<>>
    /\ sentiment_counts = << 0, 0, 0 >>
    /\ sent_args = <<>>
    /\ page_fetches = {}

\* ------------------------------------------------------------------------
\* fetch_and_analyze_news, lines 202-212: the adapter calls
\* ------------------------------------------------------------------------
\* One adapter call; after the last call of the plan news_sources is built.
Called(a, result) ==
    LET after == Append(calls, [adapter |-> a, result |-> result])
        res(b) == IF b = a THEN result ELSE ResultOf(b)
    IN  /\ calls' = after
        /\ IF Len(after) = Len(Plan)
           THEN /\ news_sources' = SelectSources(aggregate_sources, use_newsdata,
                                       res("moneycontrol"), res("bing"),
                                       res("newsdata"))
                /\ pc' = "check"
           ELSE UNCHANGED << news_sources, pc >>
        /\ UNCHANGED << inputs, idx, summary, pos, neg, neu, analyzed_news,
                        overall, news_list, sentiment_counts, sent_args,
                        page_fetches >>

ScrapeMoneycontrol ==
    /\ pc = "fetch" /\ NextAdapter = "moneycontrol"
    /\ \E resp \in Responses(MoneycontrolItems, MaxArticles - Fetched) :
          Called("moneycontrol", scrape_moneycontrol_news(resp))

ScrapeBing ==
    /\ pc = "fetch" /\ NextAdapter = "bing"
    /\ \E resp \in Responses(BingItems, MaxArticles - Fetched) :
          Called("bing", scrape_bing_news(resp))

FetchNewsdata ==
    /\ pc = "fetch" /\ NextAdapter = "newsdata"
    /\ \E resp \in Responses(NewsdataItems, MaxArticles - Fetched) :
          Called("newsdata", fetch_news_newsdata(resp))

\* ------------------------------------------------------------------------
\* lines 214-218: the empty check and the loop set-up
\* ------------------------------------------------------------------------
\* Variant of ReturnEmpty: the early return reports an error verdict.
ReturnEmptyAsError ==
    /\ pc = "check" /\ news_sources = <<>>
    /\ overall' = ErrorLabel
    /\ news_list' = <<>>
    /\ pc' = "returned"
    /\ UNCHANGED << inputs, calls, news_sources, idx, summary, pos, neg, neu,
                    analyzed_news, sentiment_counts, sent_args, page_fetches >>

ReturnEmpty ==
    /\ pc = "check" /\ news_sources = <<>>
    /\ overall' = Neutral
    /\ news_list' = <<>>
    /\ pc' = "returned"
    /\ UNCHANGED << inputs, calls, news_sources, idx, summary, pos, neg, neu,
                    analyzed_news, sentiment_counts, sent_args, page_fetches >>

StartLoop ==
    /\ pc = "check" /\ news_sources # <<>>
    /\ pos' = 0 /\ neg' = 0 /\ neu' = 0
    /\ analyzed_news' = <<>>
    /\ idx' = 1
    /\ summary' = news_sources[1][2]
    /\ pc' = "enrich"
    /\ UNCHANGED << inputs, calls, news_sources, overall, news_list,
                    sentiment_counts, sent_args, page_fetches >>

\* ------------------------------------------------------------------------
\* lines 220-224: enrichment of the current article
\* ------------------------------------------------------------------------
\* Variant of NeedsSummary: every article is summarized again.
NeedsSummaryAlways(summ) == TRUE

\* "if not summary"
NeedsSummary(summ) == Falsy(summ)

\* The summary an article leaves the enrichment with.
EnrichSummary(summ, url, web) ==
    IF NeedsSummary(summ) THEN parse_and_summarize_article(url, web)
    ELSE [raised |-> FALSE, value |-> summ]

Enrich ==
    /\ pc = "enrich"
    /\ \E web \in WebOutcomes :
          LET r == EnrichSummary(summary, news_sources[idx][3], web)
          IN  /\ page_fetches' = IF NeedsSummary(summary)
                                 THEN page_fetches \cup {idx}
                                 ELSE page_fetches
              /\ IF r.raised
                 THEN /\ pc' = "raised"
                      /\ UNCHANGED summary
                 ELSE /\ pc' = "classify"
                      /\ summary' = r.value
    /\ UNCHANGED << inputs, calls, news_sources, idx, pos, neg, neu,
                    analyzed_news, overall, news_list, sentiment_counts,
                    sent_args >>

\* ------------------------------------------------------------------------
\* lines 228-242: classification, counting, append; then the next article
\* ------------------------------------------------------------------------
Classify ==
    /\ pc = "classify"
    /\ LET headline == news_sources[idx][1]
           link == news_sources[idx][3]
           text == SentimentText(headline, summary)
           sentiment == SentimentOf(headline, summary, method, classifier)
           counts == Tally(<< pos, neg, neu >>, sentiment)
       IN  /\ sent_args' = Append(sent_args, text)
           /\ pos' = counts[1]
           /\ neg' = counts[2]
           /\ neu' = counts[3]
           /\ analyzed_news' =
                  Append(analyzed_news, << headline, summary, sentiment, link >>)
    /\ IF idx < Len(news_sources)
       THEN /\ idx' = idx + 1
            /\ summary' = news_sources[idx + 1][2]
            /\ pc' = "enrich"
       ELSE /\ pc' = "verdict"
            /\ UNCHANGED << idx, summary >>
    /\ UNCHANGED << inputs, calls, news_sources, overall, news_list,
                    sentiment_counts, page_fetches >>

\* ------------------------------------------------------------------------
\* lines 244-256: the verdict and the return
\* ------------------------------------------------------------------------
Return ==
    /\ pc = "verdict"
    /\ overall' = Verdict(pos, neg, neu)
    /\ news_list' = analyzed_news
    /\ pc' = "returned"
    /\ UNCHANGED << inputs, calls, news_sources, idx, summary, pos, neg, neu,
                    analyzed_news, sentiment_counts, sent_args, page_fetches >>

\* ------------------------------------------------------------------------
\* lines 284-286: the UI recounts the sentiments of the returned list
\* ------------------------------------------------------------------------
CountOf(list, label) == Cardinality({k \in 1..Len(list) : list[k][3] = label})

Recount ==
    /\ pc = "returned"
    /\ IF \A k \in 1..Len(news_list) : news_list[k][3] \in Sentiments
       THEN /\ sentiment_counts' = << CountOf(news_list, Positive),
                                      CountOf(news_list, Negative),
                                      CountOf(news_list, Neutral) >>
            /\ pc' = "shown"
       ELSE /\ pc' = "key_error"
            /\ UNCHANGED sentiment_counts
    /\ UNCHANGED << inputs, calls, news_sources, idx, summary, pos, neg, neu,
                    analyzed_news, overall, news_list, sent_args, page_fetches >>

Next ==
    \/ ScrapeMoneycontrol
    \/ ScrapeBing
    \/ FetchNewsdata
    \/ ReturnEmpty
    \/ StartLoop
    \/ Enrich
    \/ Classify
    \/ Return
    \/ Recount

Spec == Init /\ [][Next]_vars

\* ------------------------------------------------------------------------
\* Longer article lists
\* ------------------------------------------------------------------------
\* The counters after the loop has gone through list.
RECURSIVE TallyAll(_)
TallyAll(list) ==
    IF list = <<>> THEN << 0, 0, 0 >>
    ELSE Tally(TallyAll(SubSeq(list, 1, Len(list) - 1)), list[Len(list)][3])

\* The state at the end of the loop for a NewsData.io-only run whose
\* adapter returned up to ArticleCap articles, each of which comes with a
\* summary: the states the loop reaches by Enrich and Classify steps, for
\* lists longer than MaxArticles.
InitAfterLoop ==
    /\ method \in Methods
    /\ use_newsdata = TRUE
    /\ aggregate_sources = FALSE
    /\ classifier \in [Titles -> ClassifierOutcomes(method)]
    /\ \E resp \in Responses(NewsdataItems, ArticleCap) :
          LET src == fetch_news_newsdata(resp)
              done == [k \in 1..Len(src) |->
                          << src[k][1], src[k][2],
                             SentimentOf(src[k][1], src[k][2], method, classifier),
                             src[k][3] >>]
              counts == TallyAll(done)
          IN  /\ src # <<>>
              /\ calls = << [adapter |-> "newsdata", result |-> src] >>
              /\ news_sources = src
              /\ idx = Len(src)
              /\ summary = src[Len(src)][2]
              /\ analyzed_news = done
              /\ pos = counts[1] /\ neg = counts[2] /\ neu = counts[3]
              /\ sent_args = [k \in 1..Len(src) |->
                                 SentimentText(src[k][1], src[k][2])]
    /\ pc = "verdict"
    /\ overall = NoneValue
    /\ news_list = <<>>
    /\ sentiment_counts = << 0, 0, 0 >>
    /\ page_fetches = {}

SpecLong == (Init \/ InitAfterLoop) /\ [][Next]_vars

\* ------------------------------------------------------------------------
\* Properties
\* ------------------------------------------------------------------------
Returned == pc \in {"returned", "shown"}

\* C1: the returned verdict follows the ratio rule on the accumulated counts:
\* Neutral when there is no article; otherwise Positive exactly when more
\* than 0.4 of the articles are Positive; otherwise Negative exactly when
\* more than 0.4 are Negative; otherwise Neutral.  Positive wins a tie.
VerdictFollowsRatioRule ==
    Returned =>
        LET total == pos + neg + neu
        IN  /\ overall \in Sentiments
            /\ total = 0 => overall = Neutral
            /\ total > 0 =>
                 /\ overall = Positive <=> 5 * pos > 2 * total
                 /\ overall = Negative <=>
                        (~(5 * pos > 2 * total) /\ 5 * neg > 2 * total)

\* Two Positive and two Negative articles: both ratios exceed 0.4 and the
\* verdict is Positive.
VerdictTieReached ==
    /\ pc = "returned"
    /\ pos = 2 /\ neg = 2 /\ neu = 0
    /\ overall = Positive

\* Two Positive articles of five: the ratio is 0.4, not above it.
VerdictAtThreshold ==
    /\ pc = "returned"
    /\ pos = 2 /\ neg = 0 /\ neu = 3
    /\ overall = Neutral

\* C5: every stored sentiment is Positive, Negative or Neutral, whatever the
\* backend answered or raised; the UI recount finds every key; and when the
\* function is left by an exception, that exception came from the
\* summarizer of the current article, not from its classification.
SentimentsAreLabels ==
    /\ \A k \in 1..Len(analyzed_news) : analyzed_news[k][3] \in Sentiments
    /\ \A k \in 1..Len(news_list) : news_list[k][3] \in Sentiments
    /\ pc # "key_error"
    /\ pc = "raised" =>
          /\ idx \in page_fetches
          /\ Len(sent_args) = idx - 1
          /\ Len(analyzed_news) = idx - 1

\* What the backend's answer for article k becomes before the fallback.
RawLabel(k) ==
    Capitalize(analyze_sentiment(sent_args[k], method,
                                 classifier[news_list[k][1]]))

\* The UI has recounted a list holding an article whose backend raised and
\* one whose backend gave a label outside the three.
CoercedLabelShown ==
    /\ pc = "shown"
    /\ \E k \in 1..Len(news_list) :
          RawLabel(k) = ErrorLabel /\ news_list[k][3] = Neutral
    /\ \E k \in 1..Len(news_list) :
          RawLabel(k) \notin Sentiments \cup {ErrorLabel} /\ news_list[k][3] = Neutral

AllAdaptersEmpty == \A k \in 1..Len(calls) : calls[k].result = <<>>

\* C6: when every adapter that was called returned nothing, the function
\* returns Neutral with an empty list, raises nothing, and calls neither the
\* summarizer nor the classifier; the UI then counts zero of each.
EmptyYieldsNeutral ==
    (pc # "fetch" /\ AllAdaptersEmpty) =>
        /\ pc \in {"check", "returned", "shown"}
        /\ sent_args = <<>>
        /\ page_fetches = {}
        /\ analyzed_news = <<>>
        /\ pos = 0 /\ neg = 0 /\ neu = 0
        /\ Returned => (overall = Neutral /\ news_list = <<>>)
        /\ pc = "shown" => sentiment_counts = << 0, 0, 0 >>

\* All three adapters came back empty and the UI has shown the result.
AllEmptyShown ==
    /\ pc = "shown"
    /\ aggregate_sources
    /\ Len(calls) = 3
    /\ AllAdaptersEmpty

\* C7: at every step of the loop and at the return, each counter equals the
\* number of appended articles carrying that sentiment, the three sum to the
\* number of appended articles, and the UI's recount of the returned list
\* gives the same three numbers.
CountsMatchArticles ==
    /\ pos + neg + neu = Len(analyzed_news)
    /\ pos = CountOf(analyzed_news, Positive)
    /\ neg = CountOf(analyzed_news, Negative)
    /\ neu = CountOf(analyzed_news, Neutral)
    /\ Returned => news_list = analyzed_news
    /\ pc = "shown" => sentiment_counts = << pos, neg, neu >>

\* The UI has recounted a list of two Positive and one Neutral article.
MixedCountsShown ==
    /\ pc = "shown"
    /\ sentiment_counts = << 2, 0, 1 >>

NonEmptyCalls == {k \in 1..Len(calls) : calls[k].result # <<>>}

\* Output of the first adapter, in call order, that returned something.
FirstNonEmpty ==
    IF NonEmptyCalls = {} THEN <<>>
    ELSE calls[CHOOSE k \in NonEmptyCalls : \A j \in NonEmptyCalls : k <= j].result

\* C2 as stated: without aggregation the article sequence is the output of
\* exactly one adapter, the first one that returned something.
FirstSuccessOnly ==
    (~aggregate_sources /\ pc # "fetch") => news_sources = FirstNonEmpty

\* C2: without aggregation there is no fallback.  With use_newsdata only
\* NewsData.io is called and its output is the article sequence; without it
\* MoneyControl and Bing are both called and the article sequence is
\* MoneyControl's output followed by Bing's.
NonAggregateSources ==
    (~aggregate_sources /\ pc # "fetch") =>
        IF use_newsdata
        THEN /\ [k \in 1..Len(calls) |-> calls[k].adapter] = << "newsdata" >>
             /\ news_sources = calls[1].result
        ELSE /\ [k \in 1..Len(calls) |-> calls[k].adapter]
                    = << "moneycontrol", "bing" >>
             /\ news_sources = calls[1].result \o calls[2].result

\* MoneyControl and Bing both returned articles and both are in news_sources.
BothScrapersContribute ==
    /\ ~aggregate_sources /\ ~use_newsdata
    /\ pc = "check"
    /\ ResultOf("moneycontrol") # <<>>
    /\ ResultOf("bing") # <<>>
    /\ Len(news_sources) = Len(ResultOf("moneycontrol")) + Len(ResultOf("bing"))

Adapters == {"newsdata", "moneycontrol", "bing"}

\* The adapter whose output holds position k of the merged sequence.
SourceAt(k) ==
    IF k <= Len(ResultOf("newsdata")) THEN "newsdata"
    ELSE IF k <= Len(ResultOf("newsdata")) + Len(ResultOf("moneycontrol"))
    THEN "moneycontrol"
    ELSE "bing"

Occurrences(s, x) == Cardinality({k \in 1..Len(s) : s[k] = x})

\* C3 as stated: under aggregation no two articles of the merged sequence
\* share title and source.
MergedHasNoDuplicates ==
    (aggregate_sources /\ pc # "fetch") =>
        \A j, k \in 1..Len(news_sources) :
            (j < k /\ SourceAt(j) = SourceAt(k))
                => news_sources[j][1] # news_sources[k][1]

\* C3: under aggregation the merged sequence holds every article of every
\* adapter's output as often as the adapters returned it, duplicates
\* included, and nothing else; an adapter that returned nothing takes
\* nothing away from the others.
AggregateKeepsEveryArticle ==
    (aggregate_sources /\ pc # "fetch") =>
        /\ Len(news_sources) =
               Len(ResultOf("newsdata")) + Len(ResultOf("moneycontrol"))
                   + Len(ResultOf("bing"))
        /\ \A a \in Adapters : \A k \in 1..Len(ResultOf(a)) :
              LET x == ResultOf(a)[k]
              IN  Occurrences(news_sources, x) =
                      Occurrences(ResultOf("newsdata"), x)
                          + Occurrences(ResultOf("moneycontrol"), x)
                          + Occurrences(ResultOf("bing"), x)

\* One adapter came back empty, another returned the same article twice,
\* and the merged sequence holds both copies.
DuplicateKept ==
    /\ aggregate_sources
    /\ pc = "check"
    /\ \E a \in Adapters : ResultOf(a) = <<>>
    /\ \E a \in Adapters :
          /\ Len(ResultOf(a)) = 2
          /\ ResultOf(a)[1] = ResultOf(a)[2]
          /\ Occurrences(news_sources, ResultOf(a)[1]) = 2

\* C10 as stated: under aggregation the merged sequence lists the adapters'
\* outputs in the order in which the adapters were called.
MergedInCallOrder ==
    (aggregate_sources /\ pc # "fetch") =>
        news_sources = (calls[1].result \o calls[2].result) \o calls[3].result

\* C10: under aggregation the adapters are called in the order MoneyControl,
\* Bing, NewsData.io, while the merged sequence is NewsData.io's output,
\* then MoneyControl's, then Bing's, each in the order its adapter returned
\* it; the analyzed list follows the merged sequence position by position.
MergedOrder ==
    aggregate_sources =>
        /\ \A k \in 1..Len(calls) :
              calls[k].adapter = << "moneycontrol", "bing", "newsdata" >>[k]
        /\ pc # "fetch" =>
              news_sources = ResultOf("newsdata")
                  \o (ResultOf("moneycontrol") \o ResultOf("bing"))
        /\ Len(analyzed_news) <= Len(news_sources)
        /\ \A k \in 1..Len(analyzed_news) :
              /\ analyzed_news[k][1] = news_sources[k][1]
              /\ analyzed_news[k][4] = news_sources[k][3]
        /\ Returned => (news_list = analyzed_news
                           /\ Len(news_list) = Len(news_sources))

\* All three adapters returned an article; NewsData.io, called last, is
\* first in the returned list.
NewsdataListedFirst ==
    /\ aggregate_sources
    /\ pc = "returned"
    /\ \A a \in Adapters : Len(ResultOf(a)) = 1
    /\ calls[3].adapter = "newsdata"
    /\ news_list[1][1] = calls[3].result[1][1]
    /\ news_list[1][1] # calls[1].result[1][1]

\* C4 as stated: every article of the list has a summary, and no failure
\* during enrichment leaves fetch_and_analyze_news as an exception.
EnrichmentNeverRaises ==
    /\ pc # "raised"
    /\ \A k \in 1..Len(analyzed_news) : analyzed_news[k][2] # NoneValue
    /\ \A k \in 1..Len(news_list) : news_list[k][2] # NoneValue

\* C8: an article that comes with a summary keeps title, summary and link
\* and causes no call of the summarizer; title and link are never changed;
\* and enriching an article of the analyzed list again, whatever the page
\* fetch would answer, gives back the summary it has.
EnrichmentPassesThrough ==
    \A k \in 1..Len(analyzed_news) :
        /\ analyzed_news[k][1] = news_sources[k][1]
        /\ analyzed_news[k][4] = news_sources[k][3]
        /\ ~Falsy(news_sources[k][2]) =>
              /\ analyzed_news[k][2] = news_sources[k][2]
              /\ k \notin page_fetches
        /\ \A web \in WebOutcomes :
              EnrichSummary(analyzed_news[k][2], analyzed_news[k][4], web)
                  = [raised |-> FALSE, value |-> analyzed_news[k][2]]

\* The analyzed list holds an article that came with a summary, one whose
\* summary is the sentinel of a failed page fetch, and one with a derived
\* summary.
EnrichedKindsAnalyzed ==
    /\ \E k \in 1..Len(analyzed_news) :
          /\ k \notin page_fetches
          /\ analyzed_news[k][2] \notin DerivedSummaries \cup {NoSummary}
    /\ \E k \in 1..Len(analyzed_news) :
          k \in page_fetches /\ analyzed_news[k][2] = NoSummary
    /\ \E k \in 1..Len(analyzed_news) :
          k \in page_fetches /\ analyzed_news[k][2] \in DerivedSummaries

\* C9 as stated: the text handed to analyze_sentiment for an article
\* includes the article's enriched summary.
ClassifiedTextHasSummary ==
    \A k \in 1..Len(sent_args) :
        k <= Len(analyzed_news) =>
            \E j \in 1..Len(sent_args[k]) : sent_args[k][j] = analyzed_news[k][2]

\* C9: the text handed to analyze_sentiment for an article is its headline
\* alone, so the sentiment is the classification of the headline whatever
\* the summary is; the article's enrichment is nevertheless complete when
\* it is classified.
ClassifiesHeadlineAlone ==
    /\ Len(sent_args) = Len(analyzed_news)
    /\ \A k \in 1..Len(analyzed_news) :
          /\ sent_args[k] = << analyzed_news[k][1] >>
          /\ ~Falsy(analyzed_news[k][2])
          /\ analyzed_news[k][3] \in Sentiments
          /\ \A j \in 1..Len(analyzed_news) :
                analyzed_news[j][1] = analyzed_news[k][1]
                    => analyzed_news[j][3] = analyzed_news[k][3]
    /\ pc = "classify" => ~Falsy(summary)

\* Two articles with the same headline, one summarized from its page and one
\* that came with a summary, got the same sentiment.
SameHeadlineTwoSummaries ==
    \E j, k \in 1..Len(analyzed_news) :
        /\ analyzed_news[j][1] = analyzed_news[k][1]
        /\ analyzed_news[j][2] # analyzed_news[k][2]
        /\ j \in page_fetches
        /\ analyzed_news[j][2] \in DerivedSummaries
        /\ analyzed_news[j][3] = analyzed_news[k][3]
        /\ analyzed_news[j][3] # Neutral

====
